---- MODULE Spec2Model ----
(***************************************************************************)
(* Receive-path fault classification of s2n-quic-dc                        *)
(* (dc/s2n-quic-dc/src/stream/recv/error.rs) and the crypto suite registry *)
(* of s2n-quic-crypto (quic/s2n-quic-crypto/src/lib.rs).                   *)
(*                                                                         *)
(* A receive path holds at most one Error value at a time.  The value is   *)
(* produced by a detection site, by the conversion of a decrypt error or   *)
(* by the conversion of a reassembly-buffer error; the path then queries   *)
(* is_fatal, connection_close and the std::io conversions on it, and       *)
(* finally surfaces it to the caller.                                      *)
(***************************************************************************)
EXTENDS Naturals, FiniteSets, Sequences, TLC

VARIABLES
    features,   \* the TransportFeatures of the connection
    origin,     \* the value the current error was converted from
    error,      \* the Error the receive path currently holds
    fatal,      \* result of is_fatal on `error`
    close,      \* result of connection_close on `error`
    kind,       \* result of ErrorKind::from(error)
    io_error,   \* result of std::io::Error::from(error)
    surfaced,   \* the previously surfaced error together with its results
    selected    \* the key types last selected from the Suite

vars == <<features, origin, error, fatal, close, kind, io_error, surfaced, selected>>

----------------------------------------------------------------------------
(* Bounds of the payload domains *)

MaxStreamId == 1
MaxOffset == 1
MaxGap == 1
MaxAppError == 1

----------------------------------------------------------------------------
(* Option<T> and a not-yet-computed result *)

None == [some |-> FALSE]
Some(v) == [some |-> TRUE, value |-> v]

Pending == [done |-> FALSE]
Done(v) == [done |-> TRUE, value |-> v]

----------------------------------------------------------------------------
(* recv::Error *)

StreamId == 0..MaxStreamId
Offset == 0..MaxOffset
Gap == {None} \cup {Some(g) : g \in 0..MaxGap}
ApplicationErrorCode == 0..MaxAppError

UnitVariants ==
    {"Decode", "Decrypt", "Duplicate", "MaxDataExceeded", "InvalidFin",
     "OutOfRange", "UnexpectedRetransmission", "TruncatedTransport",
     "IdleTimeout", "KeyReplayPrevented"}

Unit(tag) == [tag |-> tag]
StreamMismatch(expected, actual) ==
    [tag |-> "StreamMismatch", expected |-> expected, actual |-> actual]
OutOfOrder(expected, actual) ==
    [tag |-> "OutOfOrder", expected |-> expected, actual |-> actual]
KeyReplayMaybePrevented(gap) == [tag |-> "KeyReplayMaybePrevented", gap |-> gap]
ApplicationError(err) == [tag |-> "ApplicationError", error |-> err]

Error ==
    {Unit(t) : t \in UnitVariants}
    \cup {StreamMismatch(e, a) : e \in StreamId, a \in StreamId}
    \cup {OutOfOrder(e, a) : e \in Offset, a \in Offset}
    \cup {KeyReplayMaybePrevented(g) : g \in Gap}
    \cup {ApplicationError(c) : c \in ApplicationErrorCode}

NoError == [tag |-> "NoError"]

----------------------------------------------------------------------------
(* Collaborators of the receive path *)

TransportFeatures == [stream : BOOLEAN]
is_stream(f) == f.stream

DecryptError ==
    {[tag |-> "ReplayDefinitelyDetected"], [tag |-> "InvalidTag"]}
    \cup {[tag |-> "ReplayPotentiallyDetected", gap |-> g] : g \in Gap}

BufferError ==
    {[tag |-> "OutOfRange"], [tag |-> "InvalidFin"]}
    \cup {[tag |-> "ReaderError", error |-> e] : e \in Error}

TransportClose(code) == [frame |-> "transport", error_code |-> code]
ApplicationClose(err) == [frame |-> "application", error_code |-> err]

----------------------------------------------------------------------------
(* impl From<decrypt::Error> for Error *)

From_decrypt_Error_drops_gap(value) ==
    CASE value.tag = "ReplayDefinitelyDetected" -> Unit("KeyReplayPrevented")
      [] value.tag = "ReplayPotentiallyDetected" -> KeyReplayMaybePrevented(None)
      [] value.tag = "InvalidTag" -> Unit("Decrypt")

From_decrypt_Error(value) ==
    CASE value.tag = "ReplayDefinitelyDetected" -> Unit("KeyReplayPrevented")
      [] value.tag = "ReplayPotentiallyDetected" -> KeyReplayMaybePrevented(value.gap)
      [] value.tag = "InvalidTag" -> Unit("Decrypt")

(* impl From<buffer::Error<Error>> for Error *)
From_buffer_Error(value) ==
    CASE value.tag = "OutOfRange" -> Unit("OutOfRange")
      [] value.tag = "InvalidFin" -> Unit("InvalidFin")
      [] value.tag = "ReaderError" -> value.error

----------------------------------------------------------------------------
(* Error::is_fatal *)

is_fatal_ignores_transport(self, f) ==
    ~(self.tag \in {"Decode", "Decrypt", "Duplicate", "StreamMismatch"})

is_fatal_retransmission_recoverable(self, f) ==
    IF is_stream(f)
    THEN TRUE
    ELSE ~(self.tag \in {"Decode", "Decrypt", "Duplicate", "StreamMismatch",
                         "UnexpectedRetransmission"})

is_fatal(self, f) ==
    IF is_stream(f)
    THEN TRUE
    ELSE ~(self.tag \in {"Decode", "Decrypt", "Duplicate", "StreamMismatch"})

----------------------------------------------------------------------------
(* Error::connection_close *)

connection_close_answers_replay(self) ==
    CASE self.tag \in {"Decode", "Decrypt", "Duplicate", "StreamMismatch",
                       "UnexpectedRetransmission", "KeyReplayMaybePrevented"} ->
            Some(TransportClose("PROTOCOL_VIOLATION"))
      [] self.tag \in {"IdleTimeout", "KeyReplayPrevented"} -> None
      [] self.tag = "MaxDataExceeded" -> Some(TransportClose("FLOW_CONTROL_ERROR"))
      [] self.tag \in {"InvalidFin", "TruncatedTransport"} ->
            Some(TransportClose("FINAL_SIZE_ERROR"))
      [] self.tag = "OutOfOrder" -> Some(TransportClose("STREAM_STATE_ERROR"))
      [] self.tag = "OutOfRange" -> Some(TransportClose("STREAM_LIMIT_ERROR"))
      [] self.tag = "ApplicationError" -> Some(ApplicationClose(self.error))

connection_close_range_as_flow(self) ==
    CASE self.tag \in {"Decode", "Decrypt", "Duplicate", "StreamMismatch",
                       "UnexpectedRetransmission"} ->
            Some(TransportClose("PROTOCOL_VIOLATION"))
      [] self.tag = "IdleTimeout" -> None
      [] self.tag \in {"MaxDataExceeded", "OutOfRange"} ->
            Some(TransportClose("FLOW_CONTROL_ERROR"))
      [] self.tag \in {"InvalidFin", "TruncatedTransport"} ->
            Some(TransportClose("FINAL_SIZE_ERROR"))
      [] self.tag = "OutOfOrder" -> Some(TransportClose("STREAM_STATE_ERROR"))
      [] self.tag \in {"KeyReplayPrevented", "KeyReplayMaybePrevented"} -> None
      [] self.tag = "ApplicationError" -> Some(ApplicationClose(self.error))

connection_close(self) ==
    CASE self.tag \in {"Decode", "Decrypt", "Duplicate", "StreamMismatch",
                       "UnexpectedRetransmission"} ->
            Some(TransportClose("PROTOCOL_VIOLATION"))
      [] self.tag = "IdleTimeout" -> None
      [] self.tag = "MaxDataExceeded" -> Some(TransportClose("FLOW_CONTROL_ERROR"))
      [] self.tag \in {"InvalidFin", "TruncatedTransport"} ->
            Some(TransportClose("FINAL_SIZE_ERROR"))
      [] self.tag = "OutOfOrder" -> Some(TransportClose("STREAM_STATE_ERROR"))
      [] self.tag = "OutOfRange" -> Some(TransportClose("STREAM_LIMIT_ERROR"))
      [] self.tag \in {"KeyReplayPrevented", "KeyReplayMaybePrevented"} -> None
      [] self.tag = "ApplicationError" -> Some(ApplicationClose(self.error))

----------------------------------------------------------------------------
(* impl From<Error> for std::io::ErrorKind *)

From_Error_ErrorKind_maybe_replay_as_data(e) ==
    CASE e.tag \in {"Decode", "Decrypt", "Duplicate", "StreamMismatch", "InvalidFin",
                    "OutOfOrder", "UnexpectedRetransmission",
                    "KeyReplayMaybePrevented"} -> "InvalidData"
      [] e.tag \in {"MaxDataExceeded", "OutOfRange"} -> "ConnectionAborted"
      [] e.tag = "TruncatedTransport" -> "UnexpectedEof"
      [] e.tag = "IdleTimeout" -> "TimedOut"
      [] e.tag = "KeyReplayPrevented" -> "PermissionDenied"
      [] e.tag = "ApplicationError" -> "ConnectionReset"

From_Error_ErrorKind_truncated_as_other(e) ==
    CASE e.tag \in {"Decode", "Decrypt", "Duplicate", "StreamMismatch", "InvalidFin",
                    "OutOfOrder", "UnexpectedRetransmission"} -> "InvalidData"
      [] e.tag \in {"MaxDataExceeded", "OutOfRange"} -> "ConnectionAborted"
      [] e.tag = "TruncatedTransport" -> "Other"
      [] e.tag = "IdleTimeout" -> "TimedOut"
      [] e.tag \in {"KeyReplayPrevented", "KeyReplayMaybePrevented"} -> "PermissionDenied"
      [] e.tag = "ApplicationError" -> "ConnectionReset"

From_Error_ErrorKind(e) ==
    CASE e.tag = "Decode" -> "InvalidData"
      [] e.tag = "Decrypt" -> "InvalidData"
      [] e.tag = "Duplicate" -> "InvalidData"
      [] e.tag = "StreamMismatch" -> "InvalidData"
      [] e.tag = "MaxDataExceeded" -> "ConnectionAborted"
      [] e.tag = "InvalidFin" -> "InvalidData"
      [] e.tag = "TruncatedTransport" -> "UnexpectedEof"
      [] e.tag = "OutOfRange" -> "ConnectionAborted"
      [] e.tag = "OutOfOrder" -> "InvalidData"
      [] e.tag = "UnexpectedRetransmission" -> "InvalidData"
      [] e.tag = "IdleTimeout" -> "TimedOut"
      [] e.tag = "KeyReplayPrevented" -> "PermissionDenied"
      [] e.tag = "KeyReplayMaybePrevented" -> "PermissionDenied"
      [] e.tag = "ApplicationError" -> "ConnectionReset"

(* impl From<Error> for std::io::Error: Self::new(error.into(), error) *)
From_Error_io_Error_loses_payload(e) ==
    [kind |-> From_Error_ErrorKind(e), error |-> [tag |-> e.tag]]

From_Error_io_Error(e) ==
    [kind |-> From_Error_ErrorKind(e), error |-> e]

----------------------------------------------------------------------------
(* impl s2n_quic_core::crypto::CryptoSuite for Suite *)

EncryptionLevel == {"Initial", "Handshake", "ZeroRtt", "OneRtt", "Retry"}

Suite_zero_rtt_reuses_one_rtt ==
    [HandshakeKey |-> "handshake::HandshakeKey",
     HandshakeHeaderKey |-> "handshake::HandshakeHeaderKey",
     InitialKey |-> "initial::InitialKey",
     InitialHeaderKey |-> "initial::InitialHeaderKey",
     OneRttKey |-> "one_rtt::OneRttKey",
     OneRttHeaderKey |-> "one_rtt::OneRttHeaderKey",
     ZeroRttKey |-> "one_rtt::OneRttKey",
     ZeroRttHeaderKey |-> "one_rtt::OneRttHeaderKey",
     RetryKey |-> "retry::RetryKey"]

Suite ==
    [HandshakeKey |-> "handshake::HandshakeKey",
     HandshakeHeaderKey |-> "handshake::HandshakeHeaderKey",
     InitialKey |-> "initial::InitialKey",
     InitialHeaderKey |-> "initial::InitialHeaderKey",
     OneRttKey |-> "one_rtt::OneRttKey",
     OneRttHeaderKey |-> "one_rtt::OneRttHeaderKey",
     ZeroRttKey |-> "zero_rtt::ZeroRttKey",
     ZeroRttHeaderKey |-> "zero_rtt::ZeroRttHeaderKey",
     RetryKey |-> "retry::RetryKey"]

(* The associated types the suite declares for one level: <Level>Key and, *)
(* where the impl has one, <Level>HeaderKey.                              *)
KeyPairOf(level) ==
    [level |-> level,
     key |-> IF (level \o "Key") \in DOMAIN Suite
             THEN Some(Suite[level \o "Key"]) ELSE None,
     header_key |-> IF (level \o "HeaderKey") \in DOMAIN Suite
                    THEN Some(Suite[level \o "HeaderKey"]) ELSE None]

KeyTypes(pair) ==
    {o.value : o \in {p \in {pair.key, pair.header_key} : p.some}}

NoSelection == [level |-> "NoLevel", key |-> None, header_key |-> None]

----------------------------------------------------------------------------
(* The receive path *)

NoOrigin == [tag |-> "none"]
NothingSurfaced == [error |-> NoError]

Init ==
    /\ features \in TransportFeatures
    /\ origin = NoOrigin
    /\ error = NoError
    /\ fatal = Pending
    /\ close = Pending
    /\ kind = Pending
    /\ io_error = Pending
    /\ surfaced = NothingSurfaced
    /\ selected = NoSelection

Raise(o, e) ==
    /\ error = NoError
    /\ origin' = o
    /\ error' = e
    /\ fatal' = Pending
    /\ close' = Pending
    /\ kind' = Pending
    /\ io_error' = Pending
    /\ UNCHANGED <<features, surfaced, selected>>

(* a detection site constructs an Error variant directly *)
Detect ==
    \E e \in Error : Raise([tag |-> "detected"], e)

(* a decrypt::Error is converted with `?` / .into() *)
FromDecrypt ==
    \E v \in DecryptError : Raise([tag |-> "decrypt", value |-> v], From_decrypt_Error(v))

(* a buffer::Error<Error> is converted with `?` / .into() *)
FromBuffer ==
    \E v \in BufferError : Raise([tag |-> "buffer", value |-> v], From_buffer_Error(v))

IsFatal ==
    /\ error # NoError
    /\ fatal = Pending
    /\ fatal' = Done(is_fatal(error, features))
    /\ UNCHANGED <<features, origin, error, close, kind, io_error, surfaced, selected>>

ConnectionClose ==
    /\ error # NoError
    /\ close = Pending
    /\ close' = Done(connection_close(error))
    /\ UNCHANGED <<features, origin, error, fatal, kind, io_error, surfaced, selected>>

IntoErrorKind ==
    /\ error # NoError
    /\ kind = Pending
    /\ kind' = Done(From_Error_ErrorKind(error))
    /\ UNCHANGED <<features, origin, error, fatal, close, io_error, surfaced, selected>>

IntoIoError ==
    /\ error # NoError
    /\ io_error = Pending
    /\ io_error' = Done(From_Error_io_Error(error))
    /\ UNCHANGED <<features, origin, error, fatal, close, kind, surfaced, selected>>

(* the error has been classified and leaves the receive path *)
Surface ==
    /\ error # NoError
    /\ fatal.done /\ close.done /\ kind.done
    /\ surfaced' = [error |-> error, fatal |-> fatal.value,
                    close |-> close.value, kind |-> kind.value]
    /\ origin' = NoOrigin
    /\ error' = NoError
    /\ fatal' = Pending
    /\ close' = Pending
    /\ kind' = Pending
    /\ io_error' = Pending
    /\ UNCHANGED <<features, selected>>

(* the record layer selects the key types of one encryption level *)
SelectKeys ==
    \E level \in EncryptionLevel :
        /\ selected' = KeyPairOf(level)
        /\ UNCHANGED <<features, origin, error, fatal, close, kind, io_error, surfaced>>

Next ==
    \/ Detect
    \/ FromDecrypt
    \/ FromBuffer
    \/ IsFatal
    \/ ConnectionClose
    \/ IntoErrorKind
    \/ IntoIoError
    \/ Surface
    \/ SelectKeys

Spec == Init /\ [][Next]_vars

----------------------------------------------------------------------------
(* Properties *)

(* C1: connection_close gives no closure signal (None) for IdleTimeout,    *)
(* KeyReplayPrevented and KeyReplayMaybePrevented with any gap, present or *)
(* absent; this holds for the error in hand and for the one surfaced       *)
(* before it, whatever faults preceded them.                               *)
C1_NoSignalForReplayOrIdle ==
    /\ (close.done /\ error.tag \in {"IdleTimeout", "KeyReplayPrevented",
                                      "KeyReplayMaybePrevented"})
          => close.value = None
    /\ surfaced.error.tag \in {"IdleTimeout", "KeyReplayPrevented",
                                "KeyReplayMaybePrevented"}
          => surfaced.close = None

C1_Witness ==
    /\ surfaced.error \in Error
    /\ error = KeyReplayMaybePrevented(Some(MaxGap))
    /\ close.done

(* C2: on a stream-shaped transport is_fatal is true for every variant and *)
(* every payload.                                                          *)
C2_StreamAlwaysFatal ==
    is_stream(features) =>
        /\ fatal.done => fatal.value = TRUE
        /\ surfaced.error # NoError => surfaced.fatal = TRUE

C2_Witness ==
    /\ is_stream(features)
    /\ error = Unit("Duplicate")
    /\ fatal.done

C4_ClosureTable ==
    (close.done /\ close.value.some) =>
        LET signal == close.value.value IN
        CASE error.tag \in {"Decode", "Decrypt", "Duplicate", "StreamMismatch",
                            "UnexpectedRetransmission"} ->
                signal = TransportClose("PROTOCOL_VIOLATION")
          [] error.tag = "MaxDataExceeded" ->
                signal = TransportClose("FLOW_CONTROL_ERROR")
          [] error.tag \in {"InvalidFin", "TruncatedTransport"} ->
                signal = TransportClose("FINAL_SIZE_ERROR")
          [] error.tag = "OutOfOrder" ->
                signal = TransportClose("STREAM_STATE_ERROR")
          [] error.tag = "OutOfRange" ->
                signal = TransportClose("STREAM_LIMIT_ERROR")
          [] error.tag = "ApplicationError" ->
                signal.frame = "application" /\ signal.error_code = error.error
          [] OTHER -> FALSE

C4_Witness ==
    /\ ~is_stream(features)
    /\ error = Unit("Duplicate")
    /\ fatal = Done(FALSE)
    /\ close.done /\ close.value.some
    /\ surfaced.error = ApplicationError(MaxAppError)
    /\ surfaced.close.some

(* C5: a decrypt error converts to KeyReplayPrevented when the replay was  *)
(* definitely detected, to KeyReplayMaybePrevented with the same gap when  *)
(* it was potentially detected, and to Decrypt when the tag was invalid.   *)
C5_ReplaySignalConversion ==
    origin.tag = "decrypt" =>
        CASE origin.value.tag = "ReplayDefinitelyDetected" ->
                error = Unit("KeyReplayPrevented")
          [] origin.value.tag = "ReplayPotentiallyDetected" ->
                /\ error.tag = "KeyReplayMaybePrevented"
                /\ error.gap = origin.value.gap
          [] origin.value.tag = "InvalidTag" ->
                error = Unit("Decrypt")
          [] OTHER -> FALSE

C5_Witness ==
    /\ origin.tag = "decrypt"
    /\ origin.value.tag = "ReplayPotentiallyDetected"
    /\ origin.value.gap = Some(MaxGap)
    /\ error.tag = "KeyReplayMaybePrevented"

(* C6: two replay faults on the same connection, whichever of the two      *)
(* variants and whatever the gap, get the same is_fatal, the same          *)
(* connection_close and the same ErrorKind.                                *)
C6_ReplayVariantsAlike ==
    (/\ error.tag \in {"KeyReplayPrevented", "KeyReplayMaybePrevented"}
     /\ surfaced.error.tag \in {"KeyReplayPrevented", "KeyReplayMaybePrevented"})
    =>  /\ fatal.done => fatal.value = surfaced.fatal
        /\ close.done => close.value = surfaced.close
        /\ kind.done => kind.value = surfaced.kind

C6_Witness ==
    /\ surfaced.error = Unit("KeyReplayPrevented")
    /\ error = KeyReplayMaybePrevented(Some(MaxGap))
    /\ fatal.done /\ close.done /\ kind.done

(* C7: the ErrorKind conversion is defined on all 14 variants and gives    *)
(* the category of the adapter table, always one of the six categories.    *)
C7_ErrorKindTable ==
    /\ Cardinality({e.tag : e \in Error}) = 14
    /\ kind.done =>
        /\ kind.value \in {"InvalidData", "ConnectionAborted", "UnexpectedEof",
                           "TimedOut", "PermissionDenied", "ConnectionReset"}
        /\ kind.value =
            CASE error.tag \in {"Decode", "Decrypt", "Duplicate", "StreamMismatch",
                                "InvalidFin", "OutOfOrder",
                                "UnexpectedRetransmission"} -> "InvalidData"
              [] error.tag \in {"MaxDataExceeded", "OutOfRange"} -> "ConnectionAborted"
              [] error.tag = "TruncatedTransport" -> "UnexpectedEof"
              [] error.tag = "IdleTimeout" -> "TimedOut"
              [] error.tag \in {"KeyReplayPrevented", "KeyReplayMaybePrevented"} ->
                    "PermissionDenied"
              [] error.tag = "ApplicationError" -> "ConnectionReset"
              [] OTHER -> "unmapped"

C7_Witness ==
    /\ error = Unit("TruncatedTransport")
    /\ kind = Done("UnexpectedEof")

(* C8: the std::io::Error built from an Error carries that Error, payload  *)
(* included, as its cause, and its kind is the ErrorKind of that Error.    *)
C8_IoErrorRoundTrip ==
    io_error.done =>
        /\ io_error.value.error = error
        /\ kind.done => io_error.value.kind = kind.value

C8_Witness ==
    /\ error = StreamMismatch(0, MaxStreamId)
    /\ io_error.done
    /\ kind.done

(* C9 as stated: every encryption level, Retry included, is bound to a     *)
(* body key type and a header-protection key type of its own.              *)
C9_EveryLevelHasHeaderKey ==
    selected.level \in EncryptionLevel =>
        /\ selected.key.some
        /\ selected.header_key.some
        /\ selected.key # selected.header_key
        /\ \A l \in EncryptionLevel \ {selected.level} :
                KeyTypes(KeyPairOf(l)) \cap KeyTypes(selected) = {}

(* C9 amended: Initial, Handshake, ZeroRtt and OneRtt are each bound to a  *)
(* body key type and a different header-protection key type; Retry is      *)
(* bound to a body key type only; no key type is bound to two levels.      *)
C9_LevelKeyTypes ==
    selected.level \in EncryptionLevel =>
        /\ selected.key.some
        /\ selected.header_key.some <=> selected.level # "Retry"
        /\ selected.key # selected.header_key
        /\ \A l \in EncryptionLevel \ {selected.level} :
                KeyTypes(KeyPairOf(l)) \cap KeyTypes(selected) = {}

C9_Witness ==
    /\ selected.level = "Retry"
    /\ selected.key = Some("retry::RetryKey")

(* C10: every error that connection_close maps to PROTOCOL_VIOLATION is    *)
(* fatal on a stream-shaped transport and not fatal on a datagram-shaped   *)
(* one.                                                                    *)
C10_ProtocolViolationOnlyFatalOnStream ==
    (/\ close.done
     /\ close.value = Some(TransportClose("PROTOCOL_VIOLATION"))
     /\ fatal.done)
    => (fatal.value <=> is_stream(features))

====
